---- MODULE Spec2Model ----
(***************************************************************************)
(* A model of the raffle bot of src/src/main.rs: the persisted Store, the  *)
(* message handler telegram_msg_handler and the drawing send_giftcards.    *)
(*                                                                         *)
(* A text is a sequence of one-character strings; "\n" is the line feed.   *)
(* A BTreeSet is the strictly ascending sequence of its elements, which is *)
(* the order in which the code iterates it and pops from it.               *)
(***************************************************************************)
EXTENDS Integers, Sequences, FiniteSets, Bags, TLC

\* ------------------------------------------------------------------ bounds

\* Non-admin chats are 1..NumChats.
NumChats == 2
\* Handler tasks that may be in flight at once.
MaxTasks == 2

\* ------------------------------------------------------------------- texts

RangeOf(s) == {s[i] : i \in 1..Len(s)}

NL == "\n"
SP == " "

Digits == <<"0", "1", "2", "3", "4", "5", "6", "7", "8", "9">>
Uppers == <<"A", "B", "C", "D", "E", "F", "G", "H", "I", "J", "K", "L", "M",
            "N", "O", "P", "Q", "R", "S", "T", "U", "V", "W", "X", "Y", "Z">>

\* char::is_uppercase and char::is_numeric on the characters of the model.
IsUppercase(c) == c \in RangeOf(Uppers)
IsNumeric(c) == c \in RangeOf(Digits)

\* The order of char (and so of String) on the characters a giftcard holds.
CharOrder == Digits \o Uppers
Ord(c) == CHOOSE i \in 1..Len(CharOrder) : CharOrder[i] = c

\* a < b for two strings of giftcard characters (Ord for String).
RECURSIVE StrLess(_, _)
StrLess(a, b) ==
    IF b = <<>> THEN FALSE
    ELSE IF a = <<>> THEN TRUE
    ELSE IF Head(a) # Head(b) THEN Ord(Head(a)) < Ord(Head(b))
    ELSE StrLess(Tail(a), Tail(b))

IntLess(a, b) == a < b

\* str::starts_with
StartsWith(s, p) == Len(s) >= Len(p) /\ SubSeq(s, 1, Len(p)) = p

\* str::contains
Contains(s, p) ==
    \E i \in 1..(Len(s) + 1) :
        i + Len(p) - 1 <= Len(s) /\ SubSeq(s, i, i + Len(p) - 1) = p

\* str::replace(p, ""): every non-overlapping match of p, left to right, removed.
RECURSIVE RemoveAll(_, _)
RemoveAll(s, p) ==
    IF s = <<>> THEN <<>>
    ELSE IF StartsWith(s, p) THEN RemoveAll(SubSeq(s, Len(p) + 1, Len(s)), p)
    ELSE <<Head(s)>> \o RemoveAll(Tail(s), p)

\* str::split_terminator('\n'), as the sequence of the items it yields: the
\* pieces between line feeds, without a last piece that is empty.
RECURSIVE SplitTerminator(_)
SplitTerminator(s) ==
    IF s = <<>> THEN <<>>
    ELSE IF \E i \in 1..Len(s) : s[i] = NL
         THEN LET i == CHOOSE k \in 1..Len(s) :
                           s[k] = NL /\ \A j \in 1..(k - 1) : s[j] # NL
              IN  <<SubSeq(s, 1, i - 1)>> \o SplitTerminator(SubSeq(s, i + 1, Len(s)))
         ELSE <<s>>

\* Iterator::skip(1)
Skip1(items) == IF items = <<>> THEN <<>> ELSE Tail(items)

\* usize::to_string of a count, as a string.
RECURSIVE CountToString(_)
CountToString(n) ==
    IF n < 10 THEN Digits[n + 1]
    ELSE CountToString(n \div 10) \o Digits[(n % 10) + 1]

\* An Option is the empty sequence (None) or a one-element sequence (Some).
None == <<>>
Some(x) == <<x>>

\* ------------------------------------------------------------ the literals

StartRaffleMarker == <<"#", "S", "t", "a", "r", "t", "R", "a", "f", "f", "l", "e">>
SecretCodeMarker == <<"#", "S", "e", "c", "r", "e", "t", "C", "o", "d", "e">>
SecretCodePrefix == SecretCodeMarker \o <<SP>>
EndRaffleText == <<"#", "E", "n", "d", "R", "a", "f", "f", "l", "e">>
ParticipantsCountText ==
    <<"#", "P", "a", "r", "t", "i", "c", "i", "p", "a", "n", "t", "s", "C", "o", "u", "n", "t">>
GiftcardsCountText ==
    <<"#", "G", "i", "f", "t", "c", "a", "r", "d", "s", "C", "o", "u", "n", "t">>

RaffleStarted == "Raffle started"
GaveOutAll == "Horray! We gave out all the gift cards!"
NoOngoingRaffle == "Sorry! There's no ongoing raffle at the moment."
IncorrectSecret == "Incorrect secret code!"
Entered == "Yay! You've been entered into the raffle!"
CannotParseText == "cannot parse out text"
NotResponding == "not responding to this case"

\* ---------------------------------------------------------------- BTreeSet

\* BTreeSet::remove
BTreeRemove(set, x) == SelectSeq(set, LAMBDA y : y # x)

\* ------------------------------------------------------------------- Store

admin_uname == "admin"

\* The Store that open_or_else makes when there is no file yet.
EmptyStore == [giftcards |-> <<>>, participants |-> <<>>, secret_code |-> None]

\* Vec::push in the place of BTreeSet::insert.
ParticipantsPush(participants, chat_id) == Append(participants, chat_id)

\* store.participants.insert(chat_id): BTreeSet::insert puts the element at
\* its place in the order unless it is there already.
ParticipantsInsert(participants, chat_id) ==
    IF chat_id \in RangeOf(participants) THEN participants
    ELSE SelectSeq(participants, LAMBDA other : IntLess(other, chat_id))
             \o <<chat_id>>
             \o SelectSeq(participants, LAMBDA other : IntLess(chat_id, other))

\* A removal that removes nothing.
ParticipantsRemoveNothing(participants, chat_id) == participants

\* pop_first() in the place of remove(&chat_id).
ParticipantsRemoveFirst(participants, chat_id) ==
    IF participants = <<>> THEN <<>> ELSE Tail(participants)

\* STORE.write().participants.remove(&chat_id)
ParticipantsRemove(participants, chat_id) == BTreeRemove(participants, chat_id)

\* store.giftcards.insert(word.to_string())
GiftcardsInsert(giftcards, word) ==
    IF word \in RangeOf(giftcards) THEN giftcards
    ELSE SelectSeq(giftcards, LAMBDA other : StrLess(other, word))
             \o <<word>>
             \o SelectSeq(giftcards, LAMBDA other : StrLess(word, other))

\* The test of line 127 on one line of a start-raffle message.
IsGiftcard(word) ==
    /\ \A i \in 1..Len(word) : IsUppercase(word[i]) \/ IsNumeric(word[i])
    /\ Len(word) > 5

\* The lines of a start-raffle message after its first line.
LinesOf(msg) == Skip1(SplitTerminator(msg))

\* lines.next().filter(|code| code.starts_with("#SecretCode")): the first
\* following line is taken from the iterator whether or not it passes.
SecretLine(msg) ==
    LET lines == LinesOf(msg)
    IN  IF lines # <<>> /\ StartsWith(Head(lines), SecretCodeMarker)
        THEN Some(Head(lines)) ELSE None

\* What is left of the iterator for the loop of line 126.
GiftcardLines(msg) ==
    LET lines == LinesOf(msg) IN IF lines = <<>> THEN <<>> ELSE Tail(lines)

\* secret_code.map(|code| code.replace("#SecretCode ", ""))
ParseSecretCode(msg) ==
    LET line == SecretLine(msg)
    IN  IF line = None THEN None ELSE Some(RemoveAll(line[1], SecretCodePrefix))

\* The loop of lines 126-131 over words, inserting into giftcards.
RECURSIVE InsertGiftcards(_, _)
InsertGiftcards(giftcards, words) ==
    IF words = <<>> THEN giftcards
    ELSE InsertGiftcards(
             IF IsGiftcard(Head(words)) THEN GiftcardsInsert(giftcards, Head(words))
             ELSE giftcards,
             Tail(words))

\* A clear that clears nothing.
GiftcardsNotCleared(giftcards) == giftcards

\* store.giftcards.clear() of line 121.
GiftcardsCleared(giftcards) == <<>>

\* The giftcards a start-raffle message leaves in the store.
StartGiftcards(giftcards, msg) ==
    InsertGiftcards(GiftcardsCleared(giftcards), GiftcardLines(msg))

\* ----------------------------------------------------------------- updates

\* The inbound updates of the model. An update is the part of the JSON value
\* the handler reads: message.chat.type, message.from.username (an Option),
\* message.chat.id and message.text (an Option).
AdminChat == 0
GroupChat == NumChats + 1
Users == 1..NumChats

Gold == <<"G", "O", "L", "D">>
CodeABCDEF == <<"A", "B", "C", "D", "E", "F">>
CodeABC123 == <<"A", "B", "C", "1", "2", "3">>
ShortABC12 == <<"A", "B", "C", "1", "2">>
LowerAbcdef == <<"a", "b", "c", "d", "e", "f">>

\* "#StartRaffle\n#SecretCode GOLD\nABCDEF\nABC123\nABC12\nabcdef"
StartGoldTwo ==
    StartRaffleMarker \o <<NL>> \o SecretCodePrefix \o Gold \o <<NL>> \o CodeABCDEF
        \o <<NL>> \o CodeABC123 \o <<NL>> \o ShortABC12 \o <<NL>> \o LowerAbcdef
\* "#StartRaffle\n#SecretCode GOLD\nABCDEF\n"
StartGoldOne ==
    StartRaffleMarker \o <<NL>> \o SecretCodePrefix \o Gold \o <<NL>> \o CodeABCDEF \o <<NL>>
\* "#StartRaffle\nABCDEF\nABC123": no secret code line.
StartOpen == StartRaffleMarker \o <<NL>> \o CodeABCDEF \o <<NL>> \o CodeABC123
\* "#StartRaffle": neither a secret code nor a giftcard.
StartNothing == StartRaffleMarker

StartTexts == {StartGoldTwo, StartGoldOne, StartOpen, StartNothing}

\* "is GOLD" and "hi"
IsGoldText == <<"i", "s", SP>> \o Gold
HiText == <<"h", "i">>

AdminTexts ==
    {Some(m) : m \in StartTexts \cup {EndRaffleText, ParticipantsCountText,
                                     GiftcardsCountText, HiText}} \cup {None}
UserTexts == {Some(IsGoldText), Some(HiText)}

\* The username of a non-admin chat: chat 1 has none set.
UserName(chat) == IF chat = 1 THEN None ELSE Some("user")

Update(type, username, chat_id, text) ==
    [chat_type |-> type, username |-> username, chat_id |-> chat_id, text |-> text]

Updates ==
    {Update("private", Some(admin_uname), AdminChat, x) : x \in AdminTexts}
    \cup {Update("private", UserName(c), c, x) : c \in Users, x \in UserTexts}
    \cup {Update("private", UserName(1), 1, None),
          Update("group", Some(admin_uname), GroupChat, Some(EndRaffleText)),
          Update("group", UserName(1), GroupChat, Some(IsGoldText))}

\* let mut username = ""; if let Some(uname) = ... { username = uname }
UsernameOf(update) == IF update.username = None THEN "" ELSE update.username[1]

\* The branches without the test of line 111 on the chat type.
RouteAnyChat(update) ==
    IF update.text = None THEN "no_text"
    ELSE IF UsernameOf(update) = admin_uname
         THEN LET msg == update.text[1]
              IN  IF StartsWith(msg, StartRaffleMarker) THEN "start"
                  ELSE IF msg = EndRaffleText THEN "end"
                  ELSE IF msg = ParticipantsCountText THEN "participants_count"
                  ELSE IF msg = GiftcardsCountText THEN "giftcards_count"
                  ELSE "bail"
         ELSE "join"

\* The branch of telegram_msg_handler an update takes.
Route(update) ==
    IF update.text = None THEN "no_text"
    ELSE IF update.chat_type # "private" THEN "bail"
    ELSE IF UsernameOf(update) = admin_uname
         THEN LET msg == update.text[1]
              IN  IF StartsWith(msg, StartRaffleMarker) THEN "start"
                  ELSE IF msg = EndRaffleText THEN "end"
                  ELSE IF msg = ParticipantsCountText THEN "participants_count"
                  ELSE IF msg = GiftcardsCountText THEN "giftcards_count"
                  ELSE "bail"
         ELSE "join"

\* to_response(text, update): Ok(vec![Response { text, chat_id, .. }])
to_response(text, update) ==
    [ok |-> TRUE, text |-> text, chat_id |-> update.chat_id]

\* An Err the handler returns: nothing is sent.
Failure(text) == [ok |-> FALSE, text |-> text, chat_id |-> AdminChat]

\* ------------------------------------------------------------------- state

VARIABLES
    store,      \* STORE: the persisted Store (every write is committed to disk)
    tasks,      \* the bag of the handler tasks in flight, each with its locals
    returned,   \* what a handler returned in this step: None, or Some of it
    delivered,  \* the giftcard messages chats received of the giftcards in store
    awarded     \* the chats a drawing removed from participants, and not back

vars == <<store, tasks, returned, delivered, awarded>>

\* A task as it starts. The fields: pc, where it is; update, the message it
\* handles; participants and giftcards, what the drawing has left of its
\* shuffled snapshot and of its clone of the giftcards; chat_id and gc, the
\* pair of the current iteration. start_participants, start_giftcards, got and
\* all_ok record what the drawing started with, what it delivered and whether
\* every send succeeded.
NewTask(update) ==
    [pc |-> "start", update |-> update, participants |-> <<>>, giftcards |-> <<>>,
     chat_id |-> update.chat_id, gc |-> <<>>, start_participants |-> <<>>,
     start_giftcards |-> <<>>, got |-> {}, all_ok |-> TRUE]

Running == BagToSet(tasks)

Init ==
    /\ store = EmptyStore
    /\ tasks = EmptyBag
    /\ returned = None
    /\ delivered = {}
    /\ awarded = {}

\* The transport starts a task for the next update.
CanReceive == BagCardinality(tasks) < MaxTasks

\* What a handler returned: the task that returned, the Result, and the
\* store as it was before the step that returned.
Returned(task, result) == Some([task |-> task, result |-> result, before |-> store])

\* A handler returns result for update at once: no task stays in flight.
Reply(update, result) ==
    /\ tasks' = tasks
    /\ returned' = Returned(NewTask(update), result)

\* A task in flight returns result and ends.
Return(task, result) ==
    /\ tasks' = tasks (-) SetToBag({task})
    /\ returned' = Returned(task, result)

\* A task in flight goes on as next.
Goto(task, next) ==
    /\ tasks' = (tasks (-) SetToBag({task})) (+) SetToBag({next})
    /\ returned' = None

\* ------------------------------------------------- telegram_msg_handler

\* Lines 107-109: an update without a text.
NoText(update) ==
    /\ CanReceive
    /\ Route(update) = "no_text"
    /\ Reply(update, Failure(CannotParseText))
    /\ UNCHANGED <<store, delivered, awarded>>

\* Lines 111, 117-148, 167: an update that is not of a private chat, or an
\* admin text that is no command.
Bail(update) ==
    /\ CanReceive
    /\ Route(update) = "bail"
    /\ Reply(update, Failure(NotResponding))
    /\ UNCHANGED <<store, delivered, awarded>>

\* A start raffle that empties participants as well.
StartedAfresh(starting, msg) ==
    [giftcards |-> StartGiftcards(starting.giftcards, msg),
     participants |-> <<>>,
     secret_code |-> ParseSecretCode(msg)]

\* The Store after lines 120-132: giftcards and secret_code are assigned,
\* participants is not.
Started(starting, msg) ==
    [starting EXCEPT !.giftcards = StartGiftcards(@, msg),
                     !.secret_code = ParseSecretCode(msg)]

\* Lines 119-133, under one write guard.
StartRaffle(update) ==
    /\ CanReceive
    /\ Route(update) = "start"
    /\ store' = Started(store, update.text[1])
    /\ delivered' = {}
    /\ Reply(update, to_response(RaffleStarted, update))
    /\ UNCHANGED awarded

\* The count of the giftcards in the place of the count of the participants.
GiftcardsLenInstead(counted) == Len(counted.giftcards)

\* STORE.read().participants.len() of line 141.
ParticipantsLen(counted) == Len(counted.participants)

\* Lines 140-143.
ParticipantsCount(update) ==
    /\ CanReceive
    /\ Route(update) = "participants_count"
    /\ Reply(update, to_response(CountToString(ParticipantsLen(store)), update))
    /\ UNCHANGED <<store, delivered, awarded>>

\* Lines 145-148.
GiftcardsCount(update) ==
    /\ CanReceive
    /\ Route(update) = "giftcards_count"
    /\ Reply(update, to_response(CountToString(Len(store.giftcards)), update))
    /\ UNCHANGED <<store, delivered, awarded>>

\* Lines 149-156: the open-raffle test under a read guard that is dropped
\* before the branch is entered.
JoinCheck(update) ==
    /\ CanReceive
    /\ Route(update) = "join"
    /\ IF store.giftcards = <<>>
       THEN Reply(update, to_response(NoOngoingRaffle, update))
       ELSE /\ tasks' = tasks (+) SetToBag({[NewTask(update) EXCEPT !.pc = "join"]})
            /\ returned' = None
    /\ UNCHANGED <<store, delivered, awarded>>

\* The message compared with the secret code, not searched for it.
SecretRejectsUnlessEqual(secret_code, msg) ==
    secret_code # None /\ msg # secret_code[1]

\* The test of lines 158-162 on the secret code.
SecretRejects(secret_code, msg) ==
    secret_code # None /\ ~Contains(msg, secret_code[1])

\* Lines 157-164, under one write guard.
JoinWrite(task) ==
    /\ task.pc = "join"
    /\ IF SecretRejects(store.secret_code, task.update.text[1])
       THEN /\ Return(task, to_response(IncorrectSecret, task.update))
            /\ UNCHANGED <<store, awarded>>
       ELSE /\ store' = [store EXCEPT
                           !.participants = ParticipantsInsert(@, task.chat_id)]
            /\ awarded' = awarded \ {task.chat_id}
            /\ Return(task, to_response(Entered, task.update))
    /\ UNCHANGED delivered

\* ----------------------------------------------------------- send_giftcards

\* participants.shuffle(&mut thread_rng()): any order of the snapshot.
Shuffles(participants) ==
    LET n == Len(participants)
        orders == {f \in [1..n -> 1..n] : \A i, j \in 1..n : f[i] = f[j] => i = j}
    IN  {[i \in 1..n |-> participants[f[i]]] : f \in orders}

\* first() in the place of pop_first(): nothing leaves the clone.
AfterPeekFirst(giftcards) == giftcards

\* store.giftcards.pop_first() on the drawing's clone: what it yields and
\* what it leaves.
PopFirst(giftcards) == Head(giftcards)
AfterPopFirst(giftcards) == Tail(giftcards)

\* The loop of lines 53-83 from the head of an iteration to its first await.
\* An iteration that pops nothing awaits nothing, so once the clone is empty
\* the loop runs through what is left of the snapshot.
NextIteration(task) ==
    IF task.participants # <<>> /\ task.giftcards # <<>>
    THEN [task EXCEPT !.pc = "send_notice",
                      !.chat_id = Head(task.participants),
                      !.participants = Tail(task.participants),
                      !.gc = PopFirst(task.giftcards),
                      !.giftcards = AfterPopFirst(task.giftcards)]
    ELSE [task EXCEPT !.pc = "clear_participants",
                      !.chat_id = task.update.chat_id,
                      !.participants = <<>>,
                      !.gc = <<>>]

\* A failed iteration that puts its giftcard back into the clone.
RequeuedIteration(task) ==
    NextIteration([task EXCEPT !.all_ok = FALSE,
                               !.giftcards = GiftcardsInsert(@, task.gc)])

\* An iteration whose send failed: line 75, the timer of line 81, and on.
FailedIteration(task) == NextIteration([task EXCEPT !.all_ok = FALSE])

\* Lines 135-136 and 50-54: the clone of the store and the shuffle.
EndRaffle(update) ==
    /\ CanReceive
    /\ Route(update) = "end"
    /\ \E shuffled \in Shuffles(store.participants) :
           tasks' = tasks (+) SetToBag({NextIteration([NewTask(update) EXCEPT
                        !.participants = shuffled,
                        !.giftcards = store.giftcards,
                        !.start_participants = store.participants,
                        !.start_giftcards = store.giftcards])})
    /\ returned' = None
    /\ UNCHANGED <<store, delivered, awarded>>

\* Lines 56-64: the send of the congratulation, bounded by ten seconds.
SendNotice(task) ==
    /\ task.pc = "send_notice"
    /\ \E outcome \in {"ok", "error", "timeout"} :
           Goto(task, IF outcome = "ok" THEN [task EXCEPT !.pc = "send_code"]
                      ELSE FailedIteration(task))
    /\ UNCHANGED <<store, delivered, awarded>>

\* Lines 65-71: the send of the giftcard itself. It has no timeout.
SendCode(task) ==
    /\ task.pc = "send_code"
    /\ \E outcome \in {"ok", "error"} :
           IF outcome = "ok"
           THEN /\ delivered' = delivered \cup {<<task.gc, task.chat_id>>}
                /\ Goto(task, [task EXCEPT
                                 !.pc = "remove",
                                 !.got = @ \cup {<<task.chat_id, task.gc>>}])
           ELSE /\ delivered' = delivered
                /\ Goto(task, FailedIteration(task))
    /\ UNCHANGED <<store, awarded>>

\* Lines 77-81: the removal of the participant, and the timer.
RemoveParticipant(task) ==
    /\ task.pc = "remove"
    /\ store' = [store EXCEPT
                    !.participants = ParticipantsRemove(@, task.chat_id)]
    /\ awarded' = awarded \cup {task.chat_id}
    /\ Goto(task, NextIteration(task))
    /\ UNCHANGED delivered

\* A drawing that leaves the giftcards in the store.
GiftcardsLeftOpen(giftcards) == giftcards

\* participants.clear() and giftcards.clear() of lines 84 and 85.
ParticipantsCleared(participants) == <<>>
GiftcardsClosed(giftcards) == <<>>

\* Line 84, a write of its own.
ClearParticipants(task) ==
    /\ task.pc = "clear_participants"
    /\ store' = [store EXCEPT !.participants = ParticipantsCleared(@)]
    /\ awarded' = {}
    /\ Goto(task, [task EXCEPT !.pc = "clear_giftcards"])
    /\ UNCHANGED delivered

\* A last write that forgets the secret code with the giftcards.
SecretForgotten(closing) ==
    [closing EXCEPT !.giftcards = GiftcardsClosed(@), !.secret_code = None]

\* STORE.write().giftcards.clear() of line 85 on the Store.
RaffleClosed(closing) == [closing EXCEPT !.giftcards = GiftcardsClosed(@)]

\* Lines 85 and 137: the second write, and the reply.
ClearGiftcards(task) ==
    /\ task.pc = "clear_giftcards"
    /\ store' = RaffleClosed(store)
    /\ delivered' = {}
    /\ Return(task, to_response(GaveOutAll, task.update))
    /\ UNCHANGED awarded

\* ------------------------------------------------------------- the process

\* The process dies and is started again: the tasks are gone, and STORE is
\* opened from the file, which holds every committed write.
Crash ==
    /\ tasks # EmptyBag
    /\ tasks' = EmptyBag
    /\ returned' = None
    /\ UNCHANGED <<store, delivered, awarded>>

\* The handler is entered for an update and runs to its first await, or to
\* its return.
Handle ==
    \/ \E update \in Updates : NoText(update)
    \/ \E update \in Updates : Bail(update)
    \/ \E update \in Updates : StartRaffle(update)
    \/ \E update \in Updates : EndRaffle(update)
    \/ \E update \in Updates : ParticipantsCount(update)
    \/ \E update \in Updates : GiftcardsCount(update)
    \/ \E update \in Updates : JoinCheck(update)

\* A task in flight runs from one await, or one guard, to the next.
Proceed ==
    \/ \E task \in Running : JoinWrite(task)
    \/ \E task \in Running : SendNotice(task)
    \/ \E task \in Running : SendCode(task)
    \/ \E task \in Running : RemoveParticipant(task)
    \/ \E task \in Running : ClearParticipants(task)
    \/ \E task \in Running : ClearGiftcards(task)

\* Updates are handled concurrently, each by a task of its own.
Next == Handle \/ Proceed \/ Crash

Spec == Init /\ [][Next]_vars

\* Updates are handled one at a time: the next one is taken when the handler
\* of the one before has returned (or the process has restarted).
NextSeq == (tasks = EmptyBag /\ Handle) \/ Proceed \/ Crash

SpecSeq == Init /\ [][NextSeq]_vars

\* Updates handled one at a time by a process that does not crash.
NextLive == (tasks = EmptyBag /\ Handle) \/ Proceed

\* The steps the process takes by itself are taken in the end: a guard of
\* STORE is granted, the timer of line 81 fires, and the send of lines 56-63
\* ends when its ten seconds are over at the latest. The send of lines 65-71
\* is awaited without a timeout: it ends when the transport answers, and not
\* at all when the recipient is unresponsive.
LiveFairness ==
    /\ WF_vars(\E task \in Running : JoinWrite(task))
    /\ WF_vars(\E task \in Running : SendNotice(task))
    /\ WF_vars(\E task \in Running : RemoveParticipant(task))
    /\ WF_vars(\E task \in Running : ClearParticipants(task))
    /\ WF_vars(\E task \in Running : ClearGiftcards(task))

SpecLive == Init /\ [][NextLive]_vars /\ LiveFairness

\* ------------------------------------------------------------------ claims

\* The update a handler returned for, its Result, the task and the store
\* before the returning step.
ReturnedUpdate == returned[1].task.update
ReturnedResult == returned[1].result
ReturnedTask == returned[1].task
StoreBefore == returned[1].before

ReturnedFrom(route) == returned # None /\ Route(ReturnedUpdate) = route

\* A direct message with a text from a sender who is not the administrator.
IsJoinUpdate(update) ==
    /\ update.text # None
    /\ update.chat_type = "private"
    /\ UsernameOf(update) # admin_uname

NoDuplicates(seq) == \A i, j \in 1..Len(seq) : seq[i] = seq[j] => i = j

Min(a, b) == IF a <= b THEN a ELSE b

\* C1: no giftcard is delivered to two different chats, whatever the commands
\* and also when the process crashes in a drawing and the raffle is ended again.
C1_CodeToAtMostOneChat ==
    \A d1, d2 \in delivered : d1[1] = d2[1] => d1[2] = d2[2]

\* C2: in every state, a giftcard that a chat has received is no longer in the
\* giftcards of the store.
C2_DeliveredCodeLeftStore ==
    \A d \in delivered : d[1] \notin RangeOf(store.giftcards)

\* C3: with updates handled one at a time, a drawing never delivers a giftcard
\* to a chat whose removal an earlier drawing committed (and that has not joined
\* again since): not in the drawing that removed it, and not in a drawing
\* started after a crash.
C3_NoRedeliveryAfterRemoval ==
    \A task \in Running : task.pc = "remove" => task.chat_id \notin awarded

\* C3 witness: a drawing has just delivered a giftcard, and a chat that an
\* earlier drawing removed is not in its snapshot. That earlier drawing did not
\* reach line 84, so the process crashed in it and this is a drawing after the
\* restart.
C3_Witness ==
    \E task \in Running :
        /\ task.pc = "remove"
        /\ \E chat \in awarded : chat \notin RangeOf(task.start_participants)

\* C4: when the loop of a drawing has ended and every send succeeded, exactly
\* min(P, G) chats of the P it started with got a giftcard, one each, and the
\* giftcards are min(P, G) different ones of the G it started with.
C4_DrawingDeliversMin ==
    \A task \in Running :
        task.pc = "clear_participants" /\ task.all_ok =>
            LET n == Min(Len(task.start_participants), Len(task.start_giftcards))
                winners == {g[1] : g \in task.got}
                codes == {g[2] : g \in task.got}
            IN  /\ Cardinality(task.got) = n
                /\ Cardinality(winners) = n
                /\ Cardinality(codes) = n
                /\ winners \subseteq RangeOf(task.start_participants)
                /\ codes \subseteq RangeOf(task.start_giftcards)
                /\ Cardinality(RangeOf(task.start_participants) \ winners)
                       = Len(task.start_participants) - n

\* C4 witness: such a drawing that started with more participants than
\* giftcards and delivered.
C4_Witness ==
    \E task \in Running :
        /\ task.pc = "clear_participants"
        /\ task.all_ok
        /\ Len(task.start_participants) > Len(task.start_giftcards)
        /\ task.got # {}

\* C5: with updates handled one at a time, when end raffle returns, the
\* participants and the giftcards of the store are both empty.
C5_DrawingClosesRaffle ==
    ReturnedFrom("end") => store.participants = <<>> /\ store.giftcards = <<>>

\* C5 witness: end raffle has returned from a drawing in which a send failed
\* and which started with more giftcards than participants.
C5_Witness ==
    /\ ReturnedFrom("end")
    /\ ~ReturnedTask.all_ok
    /\ ReturnedTask.start_participants # <<>>
    /\ Len(ReturnedTask.start_giftcards) > Len(ReturnedTask.start_participants)

\* C6: in every state, participants is empty unless giftcards is non-empty.
C6_ParticipantsOnlyWhileOpen ==
    store.participants # <<>> => store.giftcards # <<>>

\* C7: a step in which start raffle returns goes from the store before to a
\* store whose giftcards are the accepted lines of that message and whose
\* secret_code is the one of that message, whatever they were; any other step
\* leaves secret_code alone and leaves giftcards alone or empties them.
C7_StartReplacesBothAtOnce ==
    [][IF returned' # None /\ Route(returned'[1].task.update) = "start"
       THEN LET msg == returned'[1].task.update.text[1]
            IN  /\ returned'[1].before = store
                /\ store'.giftcards = InsertGiftcards(<<>>, GiftcardLines(msg))
                /\ store'.secret_code = ParseSecretCode(msg)
                /\ store'.participants = store.participants
       ELSE /\ store'.secret_code = store.secret_code
            /\ store'.giftcards \in {store.giftcards, <<>>}]_vars

\* C7 witness: start raffle has returned while a drawing of the raffle before
\* is in flight, and the giftcards in the store are not the ones that drawing
\* started with, nor empty.
C7_Witness ==
    /\ ReturnedFrom("start")
    /\ store.giftcards # <<>>
    /\ StoreBefore.giftcards # <<>>
    /\ StoreBefore.giftcards # store.giftcards
    /\ StoreBefore.secret_code # store.secret_code
    /\ \E task \in Running : task.pc = "send_code"

\* The candidate lines of a start-raffle message as C8 states them: the lines
\* after the first, without a first following line that begins with the
\* secret-code marker.
C8_Candidates(msg) ==
    LET lines == Skip1(SplitTerminator(msg))
    IN  IF lines # <<>> /\ StartsWith(Head(lines), SecretCodeMarker)
        THEN Tail(lines) ELSE lines

\* C8: when start raffle returns, giftcards holds exactly the candidate lines
\* that are all uppercase letters or digits and longer than 5.
C8_EveryValidCandidateAccepted ==
    ReturnedFrom("start") =>
        RangeOf(store.giftcards) =
            {word \in RangeOf(C8_Candidates(ReturnedUpdate.text[1])) :
                /\ \A i \in 1..Len(word) : IsUppercase(word[i]) \/ IsNumeric(word[i])
                /\ Len(word) > 5}

\* C9: with updates handled one at a time, the handler returns for a direct
\* message with a text from a non-admin: the no-ongoing-raffle reply and the
\* store as before if giftcards was empty; else the incorrect-secret-code reply
\* and the store as before if secret_code was set and the text does not contain
\* it; else the entered reply, and the store as before but for participants,
\* which now holds the chat of the sender too.
C9_JoinReplies ==
    returned # None /\ IsJoinUpdate(ReturnedUpdate) =>
        LET update == ReturnedUpdate
            secret == StoreBefore.secret_code
        IN  IF StoreBefore.giftcards = <<>>
            THEN /\ ReturnedResult = to_response(NoOngoingRaffle, update)
                 /\ store = StoreBefore
            ELSE IF secret # None /\ ~Contains(update.text[1], secret[1])
            THEN /\ ReturnedResult = to_response(IncorrectSecret, update)
                 /\ store = StoreBefore
            ELSE /\ ReturnedResult = to_response(Entered, update)
                 /\ RangeOf(store.participants)
                        = RangeOf(StoreBefore.participants) \cup {update.chat_id}
                 /\ store.giftcards = StoreBefore.giftcards
                 /\ store.secret_code = StoreBefore.secret_code

\* C9 witness: with the secret code GOLD, "is GOLD" from a chat that was not a
\* participant has been answered with the entered reply.
C9_Witness ==
    /\ returned # None
    /\ IsJoinUpdate(ReturnedUpdate)
    /\ StoreBefore.secret_code = Some(Gold)
    /\ ReturnedUpdate.text = Some(IsGoldText)
    /\ ReturnedUpdate.chat_id \notin RangeOf(StoreBefore.participants)
    /\ ReturnedUpdate.chat_id \in RangeOf(store.participants)
    /\ ReturnedResult.text = Entered

\* C10: participants never holds a chat twice, and an accepted join of a chat
\* that is in participants already leaves the store, and so the count, as it
\* was.
C10_JoinIdempotent ==
    /\ NoDuplicates(store.participants)
    /\ (/\ returned # None
        /\ IsJoinUpdate(ReturnedUpdate)
        /\ ReturnedResult = to_response(Entered, ReturnedUpdate)
        /\ ReturnedUpdate.chat_id \in RangeOf(StoreBefore.participants))
       => /\ store = StoreBefore
          /\ Len(store.participants) = Len(StoreBefore.participants)

\* C10 witness: an accepted join of a chat that was a participant already,
\* beside another participant.
C10_Witness ==
    /\ returned # None
    /\ IsJoinUpdate(ReturnedUpdate)
    /\ ReturnedResult = to_response(Entered, ReturnedUpdate)
    /\ ReturnedUpdate.chat_id \in RangeOf(StoreBefore.participants)
    /\ Len(StoreBefore.participants) >= 2

\* A drawing is in flight.
DrawingInFlight == \E task \in Running : Route(task.update) = "end"

\* C11: a drawing that has started finishes and closes the raffle in the end,
\* also when a recipient is unresponsive: no send of the drawing waits for
\* longer than its timeout.
C11_DrawingFinishes ==
    DrawingInFlight ~>
        (ReturnedFrom("end") /\ store.participants = <<>> /\ store.giftcards = <<>>)

\* C12: only a step in which start raffle returns changes secret_code: a join,
\* accepted or rejected, a count query, every step of a drawing and its last
\* one leave secret_code as it was.
C12_OnlyStartChangesSecret ==
    [][store'.secret_code # store.secret_code
           => returned' # None /\ Route(returned'[1].task.update) = "start"]_vars

\* C12 witness: end raffle has returned from a drawing that delivered, in a
\* raffle a chat joined with the secret code GOLD, and the secret code is
\* still GOLD.
C12_Witness ==
    /\ ReturnedFrom("end")
    /\ ReturnedTask.got # {}
    /\ StoreBefore.secret_code = Some(Gold)
    /\ store.secret_code = Some(Gold)

\* C13: a message with a text whose chat is not a private one, from the
\* administrator or not, makes the handler return the not-responding failure,
\* which sends nothing, leaves the store as it was and starts no task.
C13_NonPrivateIgnored ==
    /\ \A task \in Running : task.update.chat_type = "private"
    /\ (returned # None /\ ReturnedUpdate.text # None
            /\ ReturnedUpdate.chat_type # "private")
       => /\ ReturnedResult = Failure(NotResponding)
          /\ ~ReturnedResult.ok
          /\ store = StoreBefore

\* C13 witness: the administrator's end raffle in a group chat has returned
\* while the raffle is open and has a participant.
C13_Witness ==
    /\ returned # None
    /\ ReturnedUpdate.chat_type = "group"
    /\ UsernameOf(ReturnedUpdate) = admin_uname
    /\ ReturnedUpdate.text = Some(EndRaffleText)
    /\ store.participants # <<>>
    /\ store.giftcards # <<>>

\* The reply to update that carries the decimal numeral of n.
CountReply(n, update) == to_response(CountToString(n), update)

\* A count query has returned the number of elements of each set of the store
\* as it was, and left the store alone.
C14_CountsAnswered ==
    /\ ReturnedFrom("participants_count") =>
           /\ ReturnedResult
                  = CountReply(Cardinality(RangeOf(StoreBefore.participants)),
                               ReturnedUpdate)
           /\ store = StoreBefore
    /\ ReturnedFrom("giftcards_count") =>
           /\ ReturnedResult
                  = CountReply(Cardinality(RangeOf(StoreBefore.giftcards)),
                               ReturnedUpdate)
           /\ store = StoreBefore
    /\ (ReturnedFrom("participants_count") \/ ReturnedFrom("giftcards_count"))
           /\ StoreBefore = EmptyStore
       => ReturnedResult.text = "0"

\* C14: the two count queries of the administrator reply with the number of
\* participants and of giftcards in the store and leave the store as it was;
\* the store is the empty one until the first start raffle returns, so before
\* any raffle has been started both reply 0.
C14_CountQueries ==
    /\ []C14_CountsAnswered
    /\ [][store = EmptyStore
             /\ ~(returned' # None /\ Route(returned'[1].task.update) = "start")
           => store' = EmptyStore]_vars

\* C14 witness: the participants count has returned with two participants
\* and one giftcard in the store.
C14_Witness ==
    /\ ReturnedFrom("participants_count")
    /\ Len(StoreBefore.participants) = 2
    /\ Len(StoreBefore.giftcards) = 1
    /\ ReturnedResult.text = "2"

\* The one task in flight when updates are handled one at a time.
TheTask == CHOOSE task \in Running : TRUE

\* A step in which a send of a drawing fails or times out: the task was at a
\* send and is neither at the second send nor at the removal after it.
FailedSendStep ==
    /\ tasks # EmptyBag
    /\ tasks' # EmptyBag
    /\ TheTask.pc \in {"send_notice", "send_code"}
    /\ TheTask'.pc \notin {"send_code", "remove"}

\* A step within a drawing, from one await to the next.
DrawingStep ==
    /\ tasks # EmptyBag
    /\ tasks' # EmptyBag
    /\ Route(TheTask.update) = "end"

\* C15: when a send to a drawn chat fails or times out, the step leaves the
\* store as it was, with the chat still in participants; the giftcard popped
\* for the chat is not put back among the giftcards the drawing has left and
\* is not the one of the next chat; and the drawing goes on with the next
\* chat of the permutation and the next giftcard, or to the final clear when
\* there is none. No step of a drawing adds to the giftcards it has left.
C15_FailedDeliveryIsLocal ==
    /\ [][FailedSendStep =>
             /\ store' = store
             /\ TheTask.chat_id \in RangeOf(store'.participants)
             /\ TheTask.gc \notin RangeOf(TheTask'.giftcards)
             /\ TheTask'.gc # TheTask.gc
             /\ TheTask'.got = TheTask.got
             /\ IF TheTask.participants # <<>> /\ TheTask.giftcards # <<>>
                THEN /\ TheTask'.pc = "send_notice"
                     /\ TheTask'.chat_id = Head(TheTask.participants)
                     /\ TheTask'.gc = Head(TheTask.giftcards)
                ELSE TheTask'.pc = "clear_participants"]_vars
    /\ [][DrawingStep =>
             /\ RangeOf(TheTask'.giftcards) \subseteq RangeOf(TheTask.giftcards)
             /\ TheTask'.gc \notin RangeOf(TheTask'.giftcards)]_vars

\* C15 witness: a drawing of two chats and two giftcards in which the sends to
\* the first chat failed is at the first send to the second chat.
C15_Witness ==
    \E task \in Running :
        /\ task.pc = "send_notice"
        /\ ~task.all_ok
        /\ task.got = {}
        /\ Len(task.start_participants) = 2
        /\ Len(task.start_giftcards) = 2
        /\ RangeOf(store.participants) = RangeOf(task.start_participants)

\* C16: within a drawing, with updates handled one at a time, the second send
\* to a chat follows a first send to it that succeeded, and the removal of a
\* chat follows a second send to it that succeeded; a step takes chats out of
\* participants only as that removal, of that one chat, or as the final clear;
\* and when the sends to the next chat begin, every chat the drawing has
\* delivered to is out of participants already.
C16_CheckpointOrder ==
    /\ [][DrawingStep /\ TheTask'.pc = "send_code" =>
             /\ TheTask.pc = "send_notice"
             /\ TheTask'.chat_id = TheTask.chat_id
             /\ TheTask'.gc = TheTask.gc]_vars
    /\ [][DrawingStep /\ TheTask'.pc = "remove" =>
             /\ TheTask.pc = "send_code"
             /\ TheTask'.chat_id = TheTask.chat_id
             /\ <<TheTask.chat_id, TheTask.gc>> \in TheTask'.got
             /\ store' = store]_vars
    /\ [][RangeOf(store.participants) \ RangeOf(store'.participants) # {} =>
             /\ tasks # EmptyBag
             /\ \/ TheTask.pc = "clear_participants"
                \/ /\ TheTask.pc = "remove"
                   /\ RangeOf(store.participants) \ RangeOf(store'.participants)
                          = {TheTask.chat_id}
                   /\ \E g \in TheTask.got : g[1] = TheTask.chat_id]_vars
    /\ [](\A task \in Running :
              task.pc \in {"send_notice", "send_code"} =>
                  \A g \in task.got : g[1] \notin RangeOf(store.participants))

\* C16 witness: a drawing is at the first send to its second chat, the first
\* chat has its giftcard and is out of participants, the second is in it.
C16_Witness ==
    \E task \in Running :
        /\ task.pc = "send_notice"
        /\ task.got # {}
        /\ task.chat_id \in RangeOf(store.participants)
        /\ \A g \in task.got : g[1] \notin RangeOf(store.participants)

\* C17: with handlers running concurrently, a join puts a chat into
\* participants only when giftcards is non-empty in the store at that step.
C17_JoinInsertsOnlyWhileOpen ==
    (/\ returned # None
     /\ IsJoinUpdate(ReturnedUpdate)
     /\ ReturnedUpdate.chat_id \notin RangeOf(StoreBefore.participants)
     /\ ReturnedUpdate.chat_id \in RangeOf(store.participants))
    => StoreBefore.giftcards # <<>>

\* C18: with handlers running concurrently, a drawing delivers giftcards only
\* to chats of the snapshot it took at its start, and when it has finished
\* (end raffle returns) no chat is in participants: a chat in it would have
\* joined while the drawing was in progress, after the snapshot.
C18_LateJoinerExcluded ==
    /\ \A task \in Running :
           \A g \in task.got : g[1] \in RangeOf(task.start_participants)
    /\ ReturnedFrom("end") => store.participants = <<>>

\* What the drawings in flight have delivered: pairs of a chat and a giftcard.
GotInFlight == UNION {task.got : task \in {t \in Running : Route(t.update) = "end"}}

\* C19: when two drawings are in flight at once, no chat has got two
\* giftcards and no giftcard has gone to two chats.
C19_ConcurrentDrawingsDisjoint ==
    \A g1, g2 \in GotInFlight :
        /\ g1[1] = g2[1] => g1[2] = g2[2]
        /\ g1[2] = g2[2] => g1[1] = g2[1]

\* C20: start raffle leaves participants as it was, whatever giftcards and
\* secret code it sets: the chats that joined before stay in it, and the
\* drawing that comes next takes all of participants as its snapshot.
C20_StartKeepsParticipants ==
    /\ [](ReturnedFrom("start") => store.participants = StoreBefore.participants)
    /\ [][tasks = EmptyBag /\ tasks' # EmptyBag /\ Route(TheTask'.update) = "end"
             => TheTask'.start_participants = store.participants]_vars

\* C20 witness: a start raffle with the secret code GOLD has returned in an
\* open raffle without a secret code, and the two chats that had joined are
\* still in participants.
C20_Witness ==
    /\ ReturnedFrom("start")
    /\ StoreBefore.secret_code = None
    /\ StoreBefore.giftcards # <<>>
    /\ store.secret_code = Some(Gold)
    /\ store.giftcards # StoreBefore.giftcards
    /\ Len(StoreBefore.participants) = 2
    /\ store.participants = StoreBefore.participants

====
